---- MODULE Spec2Model ----
(***************************************************************************)
(* safe_wrapper::MyVec<T> of src/src/_16_unsafe.rs: a growable buffer over *)
(* raw allocator calls.  The container (ptr, len, cap), the allocator's    *)
(* heap, and the log of allocator and destructor calls are the state; new, *)
(* push (with grow), get and Drop are the operations.                      *)
(***************************************************************************)
EXTENDS Integers, Sequences, FiniteSets

\* ---------------------------------------------------------------- bounds

\* Number of push calls a behaviour makes at most.
MaxPush == 5

\* Width of usize in bits (64 on the usual targets; small here so that the
\* limit of Layout::array is within reach of MaxPush pushes).
Bits == 8

\* Width of i32 in bits in the calls of divide (32 in the program; small here
\* so that every pair of arguments is tried).
I32Bits == 4

\* Length of the longest slice given to split_at_mut.
MaxSlice == 4

\* i32::MIN and i32::MAX
I32Min == -(2 ^ (I32Bits - 1))
I32Max == 2 ^ (I32Bits - 1) - 1

\* Values a caller pushes.
Values == {1, 2, 3}

\* isize::MAX, the largest byte size a Layout may have.
IsizeMax == 2 ^ (Bits - 1) - 1

\* usize arithmetic is modulo 2^Bits.
UsizeModulus == 2 ^ Bits

\* ------------------------------------------------------- element types T

\* The element types MyVec is instantiated with: size_of::<T>() and
\* align_of::<T>().  I32 is the type of safe_abstractions' elements.
Unit == [size |-> 0, align |-> 1]
I32 == [size |-> 4, align |-> 4]
Wide == [size |-> 16, align |-> 8]
ElemTypes == {Unit, I32, Wide}

\* ------------------------------------------------------------ the state

VARIABLES
    T,        \* the element type of this MyVec<T>
    v,        \* the MyVec: [ptr, len, cap]
    heap,     \* the allocator's blocks, by address: [live, size, align, slots]
    events,   \* allocator calls, slot writes and destructor runs, in order
    status,   \* "live", "panicked" (unwinding), "ub", "dropped"
    counter,  \* constructed minus destructed element values
    pushLog,  \* per completed push: [value, grew (it called the allocator), cap]
    lastGet,  \* the get call just made, if any: [index, len, result, reads]
    lastQuery,\* the len() or is_empty() call just made, if any: [op, result]
    divided,  \* the divide call just made, if any: [a, b, result, panic]
    splitAt   \* the split_at_mut call just made, if any, and the slice it split

vars == <<T, v, heap, events, status, counter, pushLog, lastGet, lastQuery,
          divided, splitAt>>

\* ptr::null_mut()
Null == 0

\* Option<&T>
None == <<>>
Some(x) == <<x>>

\* A slot of a block: <<>> while uninitialized, <<x>> once x is written.
Uninit == <<>>
Init_(x) == <<x>>

RECURSIVE UninitSlots(_)
UninitSlots(n) == IF n = 0 THEN <<>> ELSE Append(UninitSlots(n - 1), Uninit)

\* A pointer that may be dereferenced, reallocated or released: the address of
\* a block the allocator handed out and has not taken back.
IsLiveBlock(h, p) == p # Null /\ p \in DOMAIN h /\ h[p].live

\* The machine an operation runs on.
Machine == [self |-> v, heap |-> heap, events |-> events, status |-> status,
            counter |-> counter]

\* ---------------------------------------------------------- new (172-178)

new_cap_one == [ptr |-> Null, len |-> 0, cap |-> 1]
new == [ptr |-> Null, len |-> 0, cap |-> 0]

\* ------------------------------------------- len, is_empty (180-186)

len(self) == self.len

is_empty_inverted(self) == self.len # 0
is_empty(self) == self.len = 0

\* ------------------------------------------------- Layout::array::<T>(n)

\* Err when n * size_of::<T>() exceeds isize::MAX rounded down to the
\* alignment; the callers unwrap it.
LayoutArray(ty, n) ==
    IF ty.size # 0 /\ n > (IsizeMax + 1 - ty.align) \div ty.size
    THEN [ok |-> FALSE, size |-> 0, align |-> ty.align]
    ELSE [ok |-> TRUE, size |-> n * ty.size, align |-> ty.align]

\* ------------------------------------------------------- grow (208-224)

\* let new_cap = if self.cap == 0 { 1 } else { self.cap * 2 };
NewCapLinear(c) == (c + 1) % UsizeModulus
NewCapSquare(c) == IF c = 0 THEN 1 ELSE IF c = 1 THEN 2 ELSE (c * c) % UsizeModulus
NewCap(c) == IF c = 0 THEN 1 ELSE (c * 2) % UsizeModulus

\* std::alloc::alloc(layout): undefined behaviour for a zero-sized layout;
\* otherwise null on failure, or the address of a fresh block of
\* uninitialized slots.
Alloc(m, ty, lay, allocOk) ==
    LET b == Len(m.heap) + 1
        call(r) == [op |-> "alloc", size |-> lay.size, align |-> lay.align,
                    ret |-> r]
    IN
    IF lay.size = 0
    THEN [m |-> [m EXCEPT !.status = "ub", !.events = Append(@, call(Null))],
          ret |-> Null]
    ELSE IF ~allocOk
    THEN [m |-> [m EXCEPT !.events = Append(@, call(Null))], ret |-> Null]
    ELSE [m |-> [m EXCEPT !.heap = Append(@, [live |-> TRUE,
                                              size |-> lay.size,
                                              align |-> lay.align,
                                              slots |-> UninitSlots(lay.size \div ty.size)]),
                          !.events = Append(@, call(b))],
          ret |-> b]

\* A block the allocator has taken back.
Freed == [live |-> FALSE, size |-> 0, align |-> 0, slots |-> <<>>]

\* std::alloc::realloc(ptr, old_layout, new_size): undefined behaviour unless
\* ptr is a live block of layout old_layout and new_size is not zero; null on
\* failure, the old block untouched; otherwise the block of the new size, in
\* place or moved (the old address then released), its old bytes kept.
Realloc(m, ty, p, old, new_size, allocOk, moved) ==
    LET b == Len(m.heap) + 1
        call(r) == [op |-> "realloc", block |-> p, oldSize |-> old.size,
                    align |-> old.align, size |-> new_size, ret |-> r]
    IN
    IF \/ ~IsLiveBlock(m.heap, p)
       \/ m.heap[p].size # old.size
       \/ m.heap[p].align # old.align
       \/ new_size = 0
    THEN [m |-> [m EXCEPT !.status = "ub", !.events = Append(@, call(Null))],
          ret |-> Null]
    ELSE IF ~allocOk
    THEN [m |-> [m EXCEPT !.events = Append(@, call(Null))], ret |-> Null]
    ELSE LET kept == m.heap[p].slots
             grown == [live |-> TRUE, size |-> new_size, align |-> old.align,
                       slots |-> kept \o UninitSlots((new_size \div ty.size)
                                                     - Len(kept))]
         IN
         IF moved
         THEN [m |-> [m EXCEPT !.heap = Append([@ EXCEPT ![p] = Freed], grown),
                               !.events = Append(@, call(b))],
               ret |-> b]
         ELSE [m |-> [m EXCEPT !.heap = [@ EXCEPT ![p] = grown],
                               !.events = Append(@, call(p))],
               ret |-> p]

\* grow taking a fresh block on every growth, the elements left behind.
grow_fresh(m, ty, allocOk, moved) ==
    LET new_cap == NewCap(m.self.cap)
        new_layout == LayoutArray(ty, new_cap)
        r == Alloc(m, ty, new_layout, allocOk)
    IN
    IF ~new_layout.ok
    THEN [m EXCEPT !.status = "panicked"]
    ELSE IF r.m.status = "ub"
    THEN r.m
    ELSE [r.m EXCEPT !.self.ptr = r.ret, !.self.cap = new_cap]

\* grow without its last line, self.cap = new_cap.
grow_keep_cap(m, ty, allocOk, moved) ==
    LET new_cap == NewCap(m.self.cap)
        new_layout == LayoutArray(ty, new_cap)
        old_layout == LayoutArray(ty, m.self.cap)
        r == IF m.self.cap = 0
             THEN Alloc(m, ty, new_layout, allocOk)
             ELSE Realloc(m, ty, m.self.ptr, old_layout, new_layout.size,
                          allocOk, moved)
    IN
    IF ~new_layout.ok \/ (m.self.cap # 0 /\ ~old_layout.ok)
    THEN [m EXCEPT !.status = "panicked"]
    ELSE IF r.m.status = "ub"
    THEN r.m
    ELSE [r.m EXCEPT !.self.ptr = r.ret]

\* grow assigning self.cap before it unwraps the new layout.
grow_cap_first(m, ty, allocOk, moved) ==
    LET new_cap == NewCap(m.self.cap)
        new_layout == LayoutArray(ty, new_cap)
        old_layout == LayoutArray(ty, m.self.cap)
        r == IF m.self.cap = 0
             THEN Alloc(m, ty, new_layout, allocOk)
             ELSE Realloc(m, ty, m.self.ptr, old_layout, new_layout.size,
                          allocOk, moved)
    IN
    IF ~new_layout.ok \/ (m.self.cap # 0 /\ ~old_layout.ok)
    THEN [m EXCEPT !.status = "panicked", !.self.cap = new_cap]
    ELSE IF r.m.status = "ub"
    THEN r.m
    ELSE [r.m EXCEPT !.self.ptr = r.ret, !.self.cap = new_cap]

\* Layout::array::<T>(n).unwrap() panics on Err; the allocator results are
\* installed unchecked.
grow(m, ty, allocOk, moved) ==
    LET new_cap == NewCap(m.self.cap)
        new_layout == LayoutArray(ty, new_cap)
        old_layout == LayoutArray(ty, m.self.cap)
        r == IF m.self.cap = 0
             THEN Alloc(m, ty, new_layout, allocOk)
             ELSE Realloc(m, ty, m.self.ptr, old_layout, new_layout.size,
                          allocOk, moved)
    IN
    IF ~new_layout.ok \/ (m.self.cap # 0 /\ ~old_layout.ok)
    THEN [m EXCEPT !.status = "panicked"]
    ELSE IF r.m.status = "ub"
    THEN r.m
    ELSE [r.m EXCEPT !.self.ptr = r.ret, !.self.cap = new_cap]

\* ------------------------------------------------------- push (189-198)

\* *self.ptr.add(self.len) = value: an assignment, which destructs the slot's
\* old contents before it writes.
PtrAssign(m, p, i, value) ==
    IF IsLiveBlock(m.heap, p) /\ i < Len(m.heap[p].slots)
    THEN [m EXCEPT !.heap[p].slots[i + 1] = Init_(value),
                   !.counter = @ - 1,
                   !.events = @ \o <<[op |-> "drop_in_place", block |-> p,
                                      index |-> i],
                                     [op |-> "write", block |-> p, index |-> i,
                                      over |-> Uninit]>>]
    ELSE [m EXCEPT !.status = "ub"]

\* ptr::write(self.ptr.add(self.len), value): undefined behaviour unless the
\* slot lies in a live block; no destructor runs on the slot's old contents.
PtrWrite(m, p, i, value) ==
    IF IsLiveBlock(m.heap, p) /\ i < Len(m.heap[p].slots)
    THEN [m EXCEPT !.heap[p].slots[i + 1] = Init_(value),
                   !.events = Append(@, [op |-> "write", block |-> p,
                                         index |-> i,
                                         over |-> m.heap[p].slots[i + 1]])]
    ELSE [m EXCEPT !.status = "ub",
                   !.events = Append(@, [op |-> "write", block |-> p,
                                         index |-> i, over |-> Uninit])]

\* if self.len == self.cap { self.grow(); }
NeedsGrowEager(self) == self.len + 1 >= self.cap
NeedsGrow(self) == self.len = self.cap

\* self.len += 1;
IncLenTwice(n) == (n + 2) % UsizeModulus
IncLen(n) == (n + 1) % UsizeModulus

\* The caller has constructed value and moves it in.  A panic in grow unwinds
\* through push and drops value; otherwise value is written and len counted.
push(m, ty, value, allocOk, moved) ==
    LET c == [m EXCEPT !.counter = @ + 1]
        g == IF NeedsGrow(c.self) THEN grow(c, ty, allocOk, moved) ELSE c
        w == PtrWrite(g, g.self.ptr, g.self.len, value)
    IN
    IF g.status = "panicked"
    THEN [g EXCEPT !.counter = @ - 1,
                   !.events = Append(@, [op |-> "drop_value"])]
    ELSE IF g.status = "ub" THEN g
    ELSE IF w.status = "ub" THEN w
    ELSE [w EXCEPT !.self.len = IncLen(@)]

\* -------------------------------------------------------- get (200-206)

\* &*self.ptr.add(index): undefined behaviour unless the slot lies in a live
\* block and holds a constructed value.
InBoundsOfCap(self, index) == index < self.cap
InBounds(self, index) == index < self.len

get(m, index) ==
    IF InBounds(m.self, index)
    THEN LET p == m.self.ptr IN
         IF /\ IsLiveBlock(m.heap, p)
            /\ index < Len(m.heap[p].slots)
            /\ m.heap[p].slots[index + 1] # Uninit
         THEN [result |-> Some(m.heap[p].slots[index + 1][1]),
               reads |-> {index}, ub |-> FALSE]
         ELSE [result |-> None, reads |-> {index}, ub |-> TRUE]
    ELSE [result |-> None, reads |-> {}, ub |-> FALSE]

\* ------------------------------------------------------ Drop (227-243)

\* ptr::drop_in_place(self.ptr.add(i)): undefined behaviour unless the slot
\* lies in a live block and holds a constructed value, which it destructs.
DropInPlace(m, p, i) ==
    IF /\ IsLiveBlock(m.heap, p)
       /\ i < Len(m.heap[p].slots)
       /\ m.heap[p].slots[i + 1] # Uninit
    THEN [m EXCEPT !.heap[p].slots[i + 1] = Uninit,
                   !.counter = @ - 1,
                   !.events = Append(@, [op |-> "drop_in_place", block |-> p,
                                         index |-> i])]
    ELSE [m EXCEPT !.status = "ub",
                   !.events = Append(@, [op |-> "drop_in_place", block |-> p,
                                         index |-> i])]

\* The range 0..self.len of the loop.
DropEndCap(self) == self.cap
DropEnd(self) == self.len

\* for i in 0..self.len { drop_in_place(self.ptr.add(i)) }, from index i on.
RECURSIVE DropElements(_, _)
DropElements(m, i) ==
    IF i >= DropEnd(m.self) \/ m.status = "ub"
    THEN m
    ELSE DropElements(DropInPlace(m, m.self.ptr, i), i + 1)

\* std::alloc::dealloc(ptr, layout): undefined behaviour unless ptr is a live
\* block of that layout, which it releases.
Dealloc(m, p, lay) ==
    LET call == [op |-> "dealloc", block |-> p, size |-> lay.size,
                 align |-> lay.align]
    IN
    IF /\ IsLiveBlock(m.heap, p)
       /\ m.heap[p].size = lay.size
       /\ m.heap[p].align = lay.align
    THEN [m EXCEPT !.heap[p] = Freed, !.events = Append(@, call)]
    ELSE [m EXCEPT !.status = "ub", !.events = Append(@, call)]

\* if self.cap > 0 { ... }
HoldsBlockAlways(self) == TRUE
HoldsBlock(self) == self.cap > 0

\* The element count of Layout::array::<T>(self.cap) in drop.
DeallocCountLen(self) == self.len
DeallocCount(self) == self.cap

drop(m, ty) ==
    IF HoldsBlock(m.self)
    THEN LET d == DropElements(m, 0)
             layout == LayoutArray(ty, DeallocCount(m.self))
             f == Dealloc(d, d.self.ptr, layout)
         IN
         IF d.status = "ub" THEN d
         ELSE IF f.status = "ub" THEN f
         ELSE [f EXCEPT !.status = "dropped"]
    ELSE [m EXCEPT !.status = "dropped"]

\* ---------------------------------------------------------- the actions

NoGet == [index |-> 0, len |-> 0, result |-> None, reads |-> {}, called |-> FALSE]
NoQuery == [op |-> "none", result |-> 0]
NoDivide == [a |-> 0, b |-> 0, result |-> 0, panic |-> "", called |-> FALSE]

NoSplit == [values |-> <<>>, mid |-> 0, slices |-> <<>>, panic |-> "",
            called |-> FALSE]

Init ==
    /\ T \in ElemTypes
    /\ v = new
    /\ heap = <<>>
    /\ events = <<>>
    /\ status = "live"
    /\ counter = 0
    /\ pushLog = <<>>
    /\ lastGet = NoGet
    /\ lastQuery = NoQuery
    /\ divided = NoDivide
    /\ splitAt = NoSplit

Install(m) ==
    /\ v' = m.self
    /\ heap' = m.heap
    /\ events' = m.events
    /\ status' = m.status
    /\ counter' = m.counter

\* v.push(value), with the allocator's answer should push grow.
Push(value, allocOk, moved) ==
    /\ status = "live"
    /\ Len(pushLog) < MaxPush
    /\ LET m == push(Machine, T, value, allocOk, moved) IN
       /\ Install(m)
       /\ pushLog' = IF m.status = "live"
                     THEN Append(pushLog, [value |-> value,
                                           grew |-> \E i \in Len(events) + 1 .. Len(m.events) :
                                                   m.events[i].op \in {"alloc", "realloc"},
                                           cap |-> m.self.cap])
                     ELSE pushLog
    /\ lastGet' = NoGet
    /\ lastQuery' = NoQuery
    /\ UNCHANGED <<T, divided, splitAt>>

\* v.get(index)
Get(index) ==
    /\ status = "live"
    /\ LET r == get(Machine, index) IN
       /\ lastGet' = [index |-> index, len |-> v.len, result |-> r.result,
                      reads |-> r.reads, called |-> TRUE]
       /\ status' = IF r.ub THEN "ub" ELSE status
    /\ lastQuery' = NoQuery
    /\ UNCHANGED <<T, v, heap, events, counter, pushLog, divided, splitAt>>

\* v.len()
LenCall ==
    /\ status = "live"
    /\ lastQuery' = [op |-> "len", result |-> len(v)]
    /\ lastGet' = NoGet
    /\ UNCHANGED <<T, v, heap, events, status, counter, pushLog, divided,
                   splitAt>>

\* v.is_empty()
IsEmptyCall ==
    /\ status = "live"
    /\ lastQuery' = [op |-> "is_empty", result |-> IF is_empty(v) THEN 1 ELSE 0]
    /\ lastGet' = NoGet
    /\ UNCHANGED <<T, v, heap, events, status, counter, pushLog, divided,
                   splitAt>>

\* v goes out of scope, at the end of the caller or while a panic unwinds.
Drop ==
    /\ status \in {"live", "panicked"}
    /\ Install(drop(Machine, T))
    /\ lastGet' = NoGet
    /\ lastQuery' = NoQuery
    /\ UNCHANGED <<T, pushLog, divided, splitAt>>

Next ==
    \/ \E value \in Values, allocOk \in BOOLEAN, moved \in BOOLEAN :
          Push(value, allocOk, moved)
    \/ \E index \in 0 .. MaxPush + 1 : Get(index)
    \/ LenCall
    \/ IsEmptyCall
    \/ Drop

Spec == Init /\ [][Next]_vars

\* ------------------------------------- divide (_19_testing.rs 313-318)

Abs(x) == IF x < 0 THEN -x ELSE x

\* a / b on i32, b not zero: the quotient rounded toward zero; a panic when
\* it is not an i32 (i32::MIN / -1).
I32Div(a, b) ==
    LET q == IF (a < 0) = (b < 0)
             THEN Abs(a) \div Abs(b)
             ELSE -(Abs(a) \div Abs(b))
    IN
    IF q > I32Max \/ q < I32Min
    THEN [result |-> 0, panic |-> "attempt to divide with overflow"]
    ELSE [result |-> q, panic |-> ""]

\* divide with the quotient rounded down.
divide_floor(a, b) ==
    IF b = 0
    THEN [result |-> 0, panic |-> "divide by zero"]
    ELSE IF a \div b > I32Max
    THEN [result |-> 0, panic |-> "attempt to divide with overflow"]
    ELSE [result |-> a \div b, panic |-> ""]

divide(a, b) ==
    IF b = 0
    THEN [result |-> 0, panic |-> "divide by zero"]
    ELSE I32Div(a, b)

\* divide(a, b), called on its own.
Divide(a, b) ==
    /\ divided' = [a |-> a, b |-> b, result |-> divide(a, b).result,
                   panic |-> divide(a, b).panic, called |-> TRUE]
    /\ UNCHANGED <<T, v, heap, events, status, counter, pushLog, lastGet,
                   lastQuery, splitAt>>

InitDivide == Init /\ T = I32

NextDivide == \E a \in I32Min .. I32Max, b \in I32Min .. I32Max : Divide(a, b)

SpecDivide == InitDivide /\ [][NextDivide]_vars

\* ------------------------------------------ split_at_mut (119-134)

\* The elements of the slices that are split, and the slices.
SliceValues == {1, 2}
SliceInputs == UNION {[1 .. n -> SliceValues] : n \in 0 .. MaxSlice}

\* slice::from_raw_parts_mut(ptr.add(start), n): the n elements from index
\* start on of the memory behind ptr.
FromRawPartsMut(start, n) == [start |-> start, len |-> n]

\* split_at_mut with both slices starting at ptr.
split_at_mut_same_start(values, mid) ==
    LET n == Len(values) IN
    IF ~(mid <= n)
    THEN [panic |-> "assertion failed: mid <= len", slices |-> <<>>]
    ELSE [panic |-> "",
          slices |-> <<FromRawPartsMut(0, mid),
                       FromRawPartsMut(0, (n - mid) % UsizeModulus)>>]

\* assert!(mid <= len) panics before the unsafe block makes the slices.
split_at_mut(values, mid) ==
    LET n == Len(values) IN
    IF ~(mid <= n)
    THEN [panic |-> "assertion failed: mid <= len", slices |-> <<>>]
    ELSE [panic |-> "",
          slices |-> <<FromRawPartsMut(0, mid),
                       FromRawPartsMut(mid, (n - mid) % UsizeModulus)>>]

\* let (left, right) = split_at_mut(&mut values, mid);
SplitAtMut(values, mid) ==
    /\ splitAt' = [values |-> values, mid |-> mid,
                   slices |-> split_at_mut(values, mid).slices,
                   panic |-> split_at_mut(values, mid).panic, called |-> TRUE]
    /\ UNCHANGED <<T, v, heap, events, status, counter, pushLog, lastGet,
                   lastQuery, divided>>

\* left[i] = x (side 1) or right[i] = x (side 2): the index is checked
\* against the slice's length, the store goes to the memory behind it.
SliceStore(side, i, x) ==
    /\ splitAt.called
    /\ splitAt.panic = ""
    /\ i < splitAt.slices[side].len
    /\ splitAt' = [splitAt EXCEPT
                      !.values[splitAt.slices[side].start + i + 1] = x]
    /\ UNCHANGED <<T, v, heap, events, status, counter, pushLog, lastGet,
                   lastQuery, divided>>

InitSplit == Init /\ T = I32

NextSplit ==
    \/ \E values \in SliceInputs, mid \in 0 .. MaxSlice + 1 :
          SplitAtMut(values, mid)
    \/ \E side \in {1, 2}, i \in 0 .. MaxSlice - 1, x \in {100, 200} :
          SliceStore(side, i, x)

SpecSplit == InitSplit /\ [][NextSplit]_vars

\* The scenario of five pushes, 1 to 5 in order, onto an empty MyVec<i32>.
Scenario == <<1, 2, 3, 4, 5>>

InitScenario == Init /\ T = I32

ScenarioPush(allocOk, moved) ==
    /\ Len(pushLog) < Len(Scenario)
    /\ Push(Scenario[Len(pushLog) + 1], allocOk, moved)

NextScenario ==
    \/ \E allocOk \in BOOLEAN, moved \in BOOLEAN : ScenarioPush(allocOk, moved)
    \/ \E index \in 0 .. MaxPush + 1 : Get(index)
    \/ Drop

SpecScenario == InitScenario /\ [][NextScenario]_vars

\* ------------------------------------------------------------ the claims

\* What the log says about a behaviour.
EventsOf(ops) == SelectSeq(events, LAMBDA e : e.op \in ops)
PositionsOf(ops) == {i \in 1 .. Len(events) : events[i].op \in ops}
PushedValues == [i \in 1 .. Len(pushLog) |-> pushLog[i].value]
CapsAfterPush == [i \in 1 .. Len(pushLog) |-> pushLog[i].cap]
GrewOnPush == [i \in 1 .. Len(pushLog) |-> pushLog[i].grew]
MovedByRealloc == \E i \in 1 .. Len(events) :
                     events[i].op = "realloc" /\ events[i].ret # events[i].block
Max(a, b) == IF a >= b THEN a ELSE b

\* C1: after any sequence of completed pushes v_0 .. v_{n-1} onto a new
\* container, get(i) is Some(v_i) for every i < n and None for every i >= n,
\* with no undefined behaviour in get; this holds after every prefix and
\* across every growth, in place or moved, and also after a push that
\* panicked in Layout::array.
C1_PushGetRoundTrip ==
    status \in {"live", "panicked"} =>
        \A i \in 0 .. MaxPush + 1 :
            /\ ~get(Machine, i).ub
            /\ get(Machine, i).result =
                   IF i < Len(pushLog) THEN Some(pushLog[i + 1].value) ELSE None

C1_Witness ==
    /\ status = "live"
    /\ Len(pushLog) >= 3
    /\ MovedByRealloc
    /\ PushedValues[1] # PushedValues[2]

\* C2: len() is the number of completed pushes: every completed push adds
\* exactly 1, and nothing else changes it.
C2_LenCountsPushes == v.len = Len(pushLog)

C2_Witness == status = "live" /\ v.len = MaxPush

\* C3: get(index) with index >= len returns None and dereferences no slot,
\* with no undefined behaviour, also when index < cap.
C3_GetOutOfRange ==
    (lastGet.called /\ lastGet.index >= lastGet.len) =>
        /\ lastGet.result = None
        /\ lastGet.reads = {}
        /\ status # "ub"

C3_Witness ==
    /\ lastGet.called
    /\ lastGet.index >= v.len
    /\ lastGet.index < v.cap
    /\ v.len > 0

\* C4: 0 <= len <= cap in every reachable state.
C4_LenWithinCap == 0 <= v.len /\ v.len <= v.cap

C4_Witness == status = "live" /\ v.len = v.cap /\ v.len >= 4

\* C5: teardown destructs the slots 0, 1, .., len - 1 of the current block,
\* in this order and each once; no slot at index >= len is ever destructed.
C5_DropDestructsLiveElements ==
    LET d == EventsOf({"drop_in_place"}) IN
    /\ \A k \in 1 .. Len(d) :
          d[k].index = k - 1 /\ d[k].index < v.len /\ d[k].block = v.ptr
    /\ status = "dropped" => Len(d) = v.len

C5_Witness == status = "dropped" /\ v.len >= 3 /\ v.cap > v.len

\* C6: teardown releases the block exactly once, as its last step, if and
\* only if cap > 0; teardown of a container with cap == 0 makes no allocator
\* call at all.
C6_DropReleasesOnce ==
    LET d == PositionsOf({"dealloc"}) IN
    /\ Cardinality(d) <= 1
    /\ \A i \in d : /\ v.cap > 0
                    /\ i = Len(events)
                    /\ events[i].block = v.ptr
                    /\ status = "dropped"
    /\ (status = "dropped" /\ v.cap > 0) => d # {}
    /\ (status = "dropped" /\ v.cap = 0) =>
           PositionsOf({"alloc", "realloc", "dealloc"}) = {}

C6_Witness ==
    /\ status = "dropped"
    /\ v.cap > 0
    /\ Len(EventsOf({"drop_in_place"})) >= 2

\* C7: the count of constructed and not yet destructed values is never
\* negative, is len while the container is in use and 0 after teardown; no
\* element is destructed by push or grow.
C7_DropCountMatchesPushCount ==
    /\ counter >= 0
    /\ status = "live" => counter = v.len
    /\ status = "dropped" => counter = 0
    /\ status # "dropped" => EventsOf({"drop_in_place"}) = <<>>

C7_Witness == status = "dropped" /\ counter = 0 /\ Len(pushLog) >= 3 /\ MovedByRealloc

\* C8: the i-th completed push, which finds len == i - 1, leaves the capacity
\* at max(1, 2 * cap) when len == cap held before it: 1 from empty, otherwise
\* twice the old capacity.
C8_GrowthDoubling ==
    \A i \in 1 .. Len(pushLog) :
        LET old == IF i = 1 THEN 0 ELSE pushLog[i - 1].cap IN
        (i - 1 = old) => pushLog[i].cap = Max(1, 2 * old)

C8_Witness ==
    /\ Len(pushLog) >= 5
    /\ pushLog[1].grew /\ pushLog[1].cap = 1
    /\ pushLog[5].grew /\ pushLog[5].cap = 8

\* C9: after pushing 1, 2, 3, 4, 5 onto an empty container len() is 5,
\* get(0) .. get(4) are Some(1) .. Some(5), get(5) is None, and the capacity
\* after the five pushes was 1, 2, 4, 4, 8.
C9_FivePushScenario ==
    (status = "live" /\ PushedValues = Scenario) =>
        /\ v.len = 5
        /\ \A i \in 0 .. 4 : get(Machine, i).result = Some(i + 1)
        /\ get(Machine, 5).result = None
        /\ CapsAfterPush = <<1, 2, 4, 4, 8>>

C9_Witness == status = "live" /\ PushedValues = Scenario /\ v.cap = 8

\* C10 as claimed: in the five-push scenario growth happens on pushes 1, 2
\* and 4 and not on pushes 3 and 5.
C10_GrowthOnPushes124 ==
    (status = "live" /\ PushedValues = Scenario) =>
        GrewOnPush = <<TRUE, TRUE, FALSE, TRUE, FALSE>>

\* C10 as amended: in the five-push scenario growth happens on pushes 1, 2,
\* 3 and 5 and not on push 4.
C10_GrowthOnPushes1235 ==
    (status = "live" /\ PushedValues = Scenario) =>
        GrewOnPush = <<TRUE, TRUE, TRUE, FALSE, TRUE>>

C10_Witness == status = "live" /\ PushedValues = Scenario /\ GrewOnPush[5]

\* Calls of the allocator in the log.
AllocatorCalls == PositionsOf({"alloc", "realloc", "dealloc"})

\* The allocator could not satisfy call i (a request it may refuse: the size
\* is not zero).
FailedAt(i) ==
    /\ events[i].op \in {"alloc", "realloc"}
    /\ events[i].size > 0
    /\ events[i].ret = Null

\* C11: until the first push the container is as new() made it: len() is 0,
\* is_empty() is true, cap is 0, the storage pointer is null, and neither
\* new() nor a get, a query or the teardown has called the allocator.
C11_EmptyOnConstruction ==
    (Len(pushLog) = 0 /\ status \in {"live", "dropped"}) =>
        /\ len(v) = 0
        /\ is_empty(v)
        /\ v.cap = 0
        /\ v.ptr = Null
        /\ AllocatorCalls = {}
        /\ heap = <<>>

C11_Witness ==
    /\ Len(pushLog) = 0
    /\ status = "dropped"
    /\ events = <<>>

\* C12: when alloc or realloc fails during growth, push aborts: the failed
\* result is not installed as the storage pointer, nothing is written
\* through it, len is not incremented and push does not return normally.
C12_AllocFailureIsFatal ==
    \A i \in 1 .. Len(events) :
        FailedAt(i) =>
            /\ ~(v.ptr = Null /\ v.cap > 0)
            /\ \A j \in i + 1 .. Len(events) : events[j].op # "write"
            /\ status # "live"

\* The block the container holds just before event i: the one its last
\* successful alloc or realloc returned, none once dealloc has released it.
HeldBefore(i) ==
    LET got == {j \in 1 .. i - 1 :
                   events[j].op \in {"alloc", "realloc"} /\ events[j].ret # Null}
        last == CHOOSE j \in got : \A k \in got : k <= j
    IN
    IF got = {} \/ \E j \in 1 .. i - 1 : events[j].op = "dealloc"
    THEN Null
    ELSE events[last].ret

\* C13: every slot that push and Drop access and every block handed to
\* realloc or dealloc is in the block the container holds at that moment,
\* and so is every slot get dereferences; no access goes through null or
\* through an address the allocator has taken back.
C13_AccessesHitTheLiveBlock ==
    /\ \A i \in PositionsOf({"write", "drop_in_place", "realloc", "dealloc"}) :
          events[i].block # Null /\ events[i].block = HeldBefore(i)
    /\ lastGet.reads # {} =>
          v.ptr # Null /\ v.ptr = HeldBefore(Len(events) + 1)

\* The part of C13 that the code keeps: no access goes through an address the
\* allocator has taken back, and no block is released twice.
C13_NoStaleAddress ==
    \A i \in PositionsOf({"write", "drop_in_place", "realloc", "dealloc"}) :
        events[i].block \in {Null, HeldBefore(i)}

\* C14: while the container is in use its block has cap slots, of which
\* exactly those at indices below len hold constructed values; every write
\* of push into a block goes to the slot at index len, unconstructed at that
\* time; get dereferences and Drop destructs only slots below len.
C14_UninitializedSlotsUntouched ==
    /\ (status \in {"live", "panicked"} /\ v.cap > 0) =>
          /\ IsLiveBlock(heap, v.ptr)
          /\ Len(heap[v.ptr].slots) = v.cap
          /\ \A i \in 0 .. v.cap - 1 :
                (heap[v.ptr].slots[i + 1] # Uninit) <=> (i < v.len)
    /\ \A i \in PositionsOf({"write"}) :
          events[i].block # Null =>
              /\ events[i].over = Uninit
              /\ events[i].index =
                     Cardinality({j \in PositionsOf({"write"}) : j < i})
    /\ \A i \in PositionsOf({"drop_in_place"}) : events[i].index < v.len
    /\ \A i \in lastGet.reads : i < lastGet.len

C14_Witness ==
    /\ status = "live"
    /\ v.cap > v.len
    /\ v.len >= 3
    /\ lastGet.reads = {v.len - 1}

\* Blocks the allocator has handed out and not taken back.
LiveBlocks == {b \in DOMAIN heap : heap[b].live}

\* C15: in every reachable state cap == 0 implies that the storage pointer
\* is null and that no block is held.
C15_ZeroCapMeansNoStorage ==
    v.cap = 0 => (v.ptr = Null /\ LiveBlocks = {})

C15_Witness ==
    /\ v.cap = 0
    /\ status = "live"
    /\ lastGet.called

\* A step that is a call of len(), is_empty() or get().
QueryStep == lastGet'.called \/ lastQuery'.op # "none"

\* C16: len(), is_empty() and get() never fail, make no allocator call and
\* leave ptr, len, cap and the stored elements unchanged; len() returns len
\* and is_empty() returns true exactly when len() == 0.
C16_QueriesArePure ==
    /\ [][QueryStep => /\ status' = "live"
                       /\ UNCHANGED <<v, heap, events, counter>>]_vars
    /\ [](lastQuery.op = "len" => lastQuery.result = v.len)
    /\ [](lastQuery.op = "is_empty" => (lastQuery.result = 1 <=> len(v) = 0))

C16_Witness ==
    /\ lastQuery.op = "is_empty"
    /\ lastQuery.result = 0
    /\ v.cap > v.len

\* C17: cap never decreases, and it changes only in a push that found
\* len == cap.
C17_CapacityNeverShrinks ==
    [][/\ v'.cap >= v.cap
       /\ v'.cap # v.cap => v.len = v.cap]_vars

C17_Witness ==
    /\ Len(pushLog) >= 4
    /\ pushLog[3].grew
    /\ ~pushLog[4].grew
    /\ pushLog[4].cap = pushLog[3].cap

\* The capacity held before push i.
CapBeforePush(i) == IF i = 1 THEN 0 ELSE pushLog[i - 1].cap

\* The pushes that grew the storage, and the slots their reallocations may
\* have had to move.
GrowingPushes == {i \in 1 .. Len(pushLog) : pushLog[i].grew}

RECURSIVE SumCapBefore(_)
SumCapBefore(pushes) ==
    IF pushes = {} THEN 0
    ELSE LET i == CHOOSE x \in pushes : TRUE IN
         CapBeforePush(i) + SumCapBefore(pushes \ {i})

RECURSIVE CeilLog2(_)
CeilLog2(n) == IF n <= 1 THEN 0 ELSE 1 + CeilLog2((n + 1) \div 2)

\* C18: after n >= 1 completed pushes from empty, the capacities held before
\* the growths sum to cap - 1, which is less than 2 * n, and there were at
\* most 1 + ceil(log2(n)) growths.
C18_LinearMoveWork ==
    LET n == Len(pushLog) IN
    n >= 1 =>
        /\ SumCapBefore(GrowingPushes) = pushLog[n].cap - 1
        /\ SumCapBefore(GrowingPushes) < 2 * n
        /\ Cardinality(GrowingPushes) <= 1 + CeilLog2(n)

C18_Witness ==
    /\ Len(pushLog) = 5
    /\ SumCapBefore(GrowingPushes) = 7
    /\ Cardinality(GrowingPushes) = 4

\* q is the quotient of a by b rounded toward zero: the remainder is smaller
\* than b in magnitude and has the sign of a.
IsTruncatedQuotient(q, a, b) ==
    LET rem == a - q * b IN
    /\ Abs(rem) < Abs(b)
    /\ rem = 0 \/ (rem < 0) = (a < 0)

\* C19 as claimed: divide(a, b) panics with "divide by zero" whenever
\* b == 0, and for every b != 0 returns the quotient rounded toward zero.
C19_DivideAsClaimed ==
    divided.called =>
        IF divided.b = 0
        THEN divided.panic = "divide by zero"
        ELSE /\ divided.panic = ""
             /\ IsTruncatedQuotient(divided.result, divided.a, divided.b)

\* C19 as amended: divide(a, b) panics with "divide by zero" whenever
\* b == 0; divide(i32::MIN, -1) panics with an arithmetic overflow; for every
\* other pair it returns the quotient rounded toward zero (divide(7, 2) is 3).
C19_Divide ==
    divided.called =>
        IF divided.b = 0
        THEN divided.panic = "divide by zero"
        ELSE IF divided.a = I32Min /\ divided.b = -1
        THEN divided.panic = "attempt to divide with overflow"
        ELSE /\ divided.panic = ""
             /\ IsTruncatedQuotient(divided.result, divided.a, divided.b)
             /\ (divided.a = 7 /\ divided.b = 2) => divided.result = 3

C19_Witness ==
    /\ divided.called
    /\ divided.a = -7
    /\ divided.b = 2
    /\ divided.result = -3

\* C20: at every point of the container's life the blocks it has obtained
\* and not released are none when cap == 0 and exactly the block ptr refers
\* to when cap > 0; after teardown there are none.
C20_SingleCurrentBlock ==
    LiveBlocks = IF status = "dropped" \/ v.cap = 0 THEN {} ELSE {v.ptr}

\* The byte size of the block the container holds just before event i.
HeldSizeBefore(i) ==
    LET got == {j \in 1 .. i - 1 :
                   events[j].op \in {"alloc", "realloc"} /\ events[j].ret # Null}
        last == CHOOSE j \in got : \A k \in got : k <= j
    IN
    IF got = {} THEN 0 ELSE events[last].size

\* C21: every allocator call carries T's alignment and a size that is an
\* element count times size_of::<T>(): one element for alloc, twice the old
\* count for realloc; the old layout given to realloc and the layout given to
\* dealloc are the layout the held block was last sized with, which is that
\* of cap elements.
C21_AllocatorSizeProtocol ==
    /\ \A i \in AllocatorCalls :
          /\ events[i].align = T.align
          /\ events[i].op = "alloc" => events[i].size = 1 * T.size
          /\ events[i].op = "realloc" =>
                /\ events[i].oldSize = HeldSizeBefore(i)
                /\ events[i].size = 2 * events[i].oldSize
          /\ events[i].op = "dealloc" =>
                /\ events[i].size = HeldSizeBefore(i)
                /\ events[i].size = v.cap * T.size
    /\ (status \in {"live", "panicked"} /\ v.cap > 0) =>
          /\ IsLiveBlock(heap, v.ptr)
          /\ heap[v.ptr].size = v.cap * T.size
          /\ heap[v.ptr].align = T.align

C21_Witness ==
    /\ status = "dropped"
    /\ v.cap > v.len
    /\ Cardinality(PositionsOf({"realloc"})) >= 2

\* C22: the growth made while cap == 0 calls alloc and every later growth
\* calls realloc on the held block: alloc is called at most once, before any
\* realloc, and realloc is never given a null block.
C22_AllocThenRealloc ==
    /\ \A i \in PositionsOf({"alloc"}) :
          \A j \in PositionsOf({"alloc", "realloc"}) : i <= j
    /\ \A i \in PositionsOf({"realloc"}) :
          /\ events[i].block # Null
          /\ events[i].block = HeldBefore(i)
    /\ \A i \in 1 .. Len(pushLog) :
          pushLog[i].grew <=> (i - 1 = CapBeforePush(i))

C22_Witness ==
    /\ Cardinality(PositionsOf({"alloc"})) = 1
    /\ Cardinality(PositionsOf({"realloc"})) = 3
    /\ status = "live"

\* The events a step appends to the log.
NewEvents == SubSeq(events', Len(events) + 1, Len(events'))

\* A step that is a push which returned.
PushReturned == pushLog' # pushLog

\* C23: a push that returns writes exactly one slot, the one at index old
\* len of the block it leaves the container with, runs no destructor, and
\* leaves the slots below old len with the values they had, in their order,
\* and the slots above old len unconstructed, whether the push grew the
\* storage or not, in place or moved.
C23_PushFrame ==
    [][PushReturned =>
          LET w == SelectSeq(NewEvents, LAMBDA e : e.op = "write") IN
          /\ Len(w) = 1
          /\ w[1].index = v.len
          /\ w[1].block = v'.ptr
          /\ SelectSeq(NewEvents,
                       LAMBDA e : e.op \in {"drop_in_place", "drop_value"}) = <<>>
          /\ counter' = counter + 1
          /\ \A i \in 1 .. v.len :
                heap'[v'.ptr].slots[i] = heap[v.ptr].slots[i]
          /\ heap'[v'.ptr].slots[v.len + 1] = Init_(pushLog'[Len(pushLog')].value)
          /\ \A i \in v.len + 2 .. v'.cap : heap'[v'.ptr].slots[i] = Uninit]_vars

C23_Witness ==
    /\ status = "live"
    /\ Len(pushLog) >= 4
    /\ pushLog[3].grew
    /\ ~pushLog[4].grew
    /\ MovedByRealloc

\* C25: between operations cap is 0 when len is 0 and otherwise the smallest
\* power of two that is at least len, so that len <= cap < 2 * len.
C25_CapTracksLen ==
    status # "ub" =>
        /\ v.len = 0 => v.cap = 0
        /\ v.len >= 1 =>
              /\ v.cap = 2 ^ CeilLog2(v.len)
              /\ v.cap >= v.len
              /\ v.cap < 2 * v.len
              /\ \A k \in 0 .. Bits : 2 ^ k >= v.len => 2 ^ k >= v.cap

C25_Witness ==
    /\ status = "live"
    /\ v.len = 3
    /\ v.cap = 4
    /\ lastGet.called

\* The element count of the request of allocator call i, and the count of
\* the block it was to replace.
CountAsked(i) == events[i].size \div T.size
CountBefore(i) == IF events[i].op = "alloc" THEN 0
                  ELSE events[i].oldSize \div T.size

\* The growths that ran to their end: the allocator was asked for a size it
\* may be asked for, and answered.
GrowthsEnded == {i \in PositionsOf({"alloc", "realloc"}) : events[i].size > 0}

\* C26: every growth ends with a capacity above the old one, and the slot at
\* index len that push writes next lies inside the block grow obtained.
C26_GrowMakesRoom ==
    \A i \in GrowthsEnded :
        /\ CountAsked(i) > CountBefore(i)
        /\ Len(events) > i
        /\ events[i + 1].op = "write"
        /\ events[i + 1].block # Null
        /\ events[i + 1].block = events[i].ret
        /\ events[i + 1].index < CountAsked(i)

\* The part of C26 that the code keeps: every growth that ends asks for more
\* elements than the block had, and doubling wraps to a smaller capacity only
\* for a zero-sized T, from cap = 2^(Bits - 1) on; for every other T the
\* layout of the doubled capacity is refused first.
C26_GrowIncreasesCap ==
    /\ \A i \in GrowthsEnded : CountAsked(i) > CountBefore(i)
    /\ \A ty \in ElemTypes, c \in 1 .. UsizeModulus - 1 :
          (/\ LayoutArray(ty, c).ok
           /\ LayoutArray(ty, NewCap(c)).ok
           /\ NewCap(c) <= c) => (ty.size = 0 /\ c >= 2 ^ (Bits - 1))

\* C27: whenever cap > 0 the storage pointer is not null and refers to a
\* live block of exactly cap slots, until teardown, also after the allocator
\* has reported a failure.
C27_CapMeansLiveBlock ==
    (v.cap > 0 /\ status # "dropped") =>
        /\ v.ptr # Null
        /\ IsLiveBlock(heap, v.ptr)
        /\ Len(heap[v.ptr].slots) = v.cap

\* C28: when Layout::array refuses the new capacity, the push panics before
\* any allocator call: the value is dropped, ptr, len and cap are as the last
\* completed push left them, get works on every index and teardown destructs
\* the elements and releases the block.
C28_LayoutPanicLeavesVecValid ==
    status = "panicked" =>
        LET n == Len(pushLog) IN
        /\ events[Len(events)].op = "drop_value"
        /\ events[Len(events) - 1].op = "write"
        /\ Cardinality(PositionsOf({"alloc", "realloc"})) =
               Cardinality(GrowingPushes)
        /\ v.len = n
        /\ v.cap = pushLog[n].cap
        /\ v.ptr = HeldBefore(Len(events) + 1)
        /\ counter = n
        /\ \A i \in 0 .. MaxPush + 1 :
              /\ ~get(Machine, i).ub
              /\ get(Machine, i).result =
                     IF i < n THEN Some(pushLog[i + 1].value) ELSE None
        /\ drop(Machine, T).status = "dropped"
        /\ drop(Machine, T).counter = 0
        /\ \A b \in DOMAIN heap : ~drop(Machine, T).heap[b].live

C28_Witness ==
    /\ status = "panicked"
    /\ T = Wide
    /\ v.len = 4
    /\ v.cap = 4

\* C29: every alloc and realloc request has a non-zero byte size, whatever
\* the size of T.
C29_NoZeroSizedRequest ==
    \A i \in PositionsOf({"alloc", "realloc"}) : events[i].size > 0

\* The indices of the split slice that a slice of split_at_mut covers.
Indices(slice) == slice.start .. slice.start + slice.len - 1

\* C24: split_at_mut(values, mid) panics when mid > len and makes no slice;
\* when mid <= len it returns two slices of lengths mid and len - mid that
\* cover the indices [0, mid) and [mid, len) of values: they do not overlap
\* and together cover values.
C24_SplitAtMut ==
    splitAt.called =>
        LET n == Len(splitAt.values) IN
        IF splitAt.mid > n
        THEN splitAt.panic # "" /\ splitAt.slices = <<>>
        ELSE /\ splitAt.panic = ""
             /\ Len(splitAt.slices) = 2
             /\ splitAt.slices[1].len = splitAt.mid
             /\ splitAt.slices[2].len = n - splitAt.mid
             /\ Indices(splitAt.slices[1]) = 0 .. splitAt.mid - 1
             /\ Indices(splitAt.slices[2]) = splitAt.mid .. n - 1
             /\ Indices(splitAt.slices[1]) \cap Indices(splitAt.slices[2]) = {}
             /\ Indices(splitAt.slices[1]) \cup Indices(splitAt.slices[2]) =
                    0 .. n - 1

C24_Witness ==
    /\ splitAt.called
    /\ splitAt.panic = ""
    /\ splitAt.mid = 2
    /\ splitAt.values = <<100, 2, 200, 1>>

====
